---- MODULE Spec2Model ----
(***************************************************************************)
(* Currency converter (script.js): rate cache, rate fetches, conversion,   *)
(* bounded conversion history and its persistence, as a state machine.     *)
(*                                                                         *)
(* One action is one task of the browser's event loop: an event handler    *)
(* or the continuation of an async function after a fetch settles, run to  *)
(* its next suspension point.  A handler is an operator from the state     *)
(* before it (a record of all the variables) to the state after it.        *)
(***************************************************************************)
EXTENDS Integers, Sequences, FiniteSets, TLC

VARIABLES
    exchangeRates,          \* script.js:23  cached rate table
    currencies,             \* script.js:24  supported codes of the last load
    conversionHistory,      \* script.js:25  newest first
    appState,               \* script.js:72  isLoading, lastUpdateTime, apiCallCount, errors
    elements,               \* script.js:28  the DOM fields the code reads and writes
    options,                \* option values of the two currency selects
    conversionHistoryData,  \* script.js:540 window.conversionHistoryData, the store
    pending,                \* async functions suspended on a fetch or a body read
    now,                    \* the clock read by new Date()
    fetchCalls,             \* number of fetch() calls issued so far
    started,                \* DOMContentLoaded has fired
    listening,              \* setupEventListeners has run
    autoRefresh,            \* startAutoRefresh has run
    debounceTimer,          \* the timer of debouncedConversion is armed
    inThrottle,             \* the flag of throttledSwap
    throttleDue,            \* instant at which the timer of throttledSwap fires
    timers,                 \* script.js:218 armed timeouts of fetchWithTimeout
    requests,               \* script.js:221 ids of the fetch() calls not yet settled
    hidden,                 \* document.hidden
    online,                 \* navigator.onLine
    refreshDue              \* instant at which the interval of startAutoRefresh fires next

vars == <<exchangeRates, currencies, conversionHistory, appState, elements, options,
          conversionHistoryData, pending, now, fetchCalls, started, listening,
          autoRefresh, debounceTimer, inThrottle, throttleDue, timers, requests, hidden,
          online, refreshDue>>

(***************************************************************************)
(* Bounds of the model                                                     *)
(***************************************************************************)
MaxNow == 3          \* Spec: no task starts once the clock was read this often
MaxAppends == 60     \* SpecStore, SpecAppend: conversions of one session
MaxFetch == 3        \* SpecSession, SpecStale: fetches of one session
MaxMinutes == 6      \* SpecStale: idle minutes of one session
MaxSwaps == 2        \* SpecSwap: conversions, and throttle intervals, of one session
MaxOverlap == 4      \* SpecOverlap: fetches of one session

(***************************************************************************)
(* Program constants                                                       *)
(***************************************************************************)
HistoryLimit == 50
MaxAmount == 1000000000
Timeout == 10000                    \* API_CONFIG.timeout, in ms
FiveMinutes == 5 * 60 * 1000        \* handleVisibilityChange: fiveMinutes
OnlineStale == 60000                \* handleOnlineStatus
ThrottleLimit == 500
RefreshInterval == 300000           \* startAutoRefresh: setInterval
Minute == 60 * 1000                 \* one minute, in ms

\* Keys of CURRENCY_INFO, the supported-currency allow-list.
CURRENCY_INFO ==
    {"USD", "EUR", "GBP", "JPY", "IDR", "CNY", "KRW", "SGD",
     "MYR", "THB", "AUD", "CAD", "CHF", "INR", "HKD", "NZD"}

\* Currency codes the rate provider uses in this model, in sort() order.
\* VND is a code the provider knows and CURRENCY_INFO does not.
ProviderCodes == <<"IDR", "USD", "VND">>

(***************************************************************************)
(* Numbers.  A number is a fraction <<n, d>> in lowest terms with d > 0;   *)
(* NaN is <<0, 0>>.  Products and quotients are exact: the rounding of     *)
(* IEEE doubles is not modelled.                                           *)
(***************************************************************************)
NaN == <<0, 0>>
IsNaN(x) == x[2] = 0
Abs(n) == IF n < 0 THEN -n ELSE n

RECURSIVE Gcd(_, _)
Gcd(a, b) == IF b = 0 THEN a ELSE Gcd(b, a % b)

Frac(n, d) ==
    LET g == Gcd(Abs(n), Abs(d))
    IN  IF d = 0 THEN NaN
        ELSE IF d < 0 THEN <<(-n) \div g, (-d) \div g>>
        ELSE <<n \div g, d \div g>>

Num(n) == <<n, 1>>
Mul(x, y) == IF IsNaN(x) \/ IsNaN(y) THEN NaN ELSE Frac(x[1] * y[1], x[2] * y[2])
Div(x, y) == IF IsNaN(x) \/ IsNaN(y) THEN NaN ELSE Frac(x[1] * y[2], x[2] * y[1])
\* x <= n and x > n for an integer n; every comparison with NaN is false.
LeqInt(x, n) == ~IsNaN(x) /\ x[1] <= n * x[2]
GtInt(x, n) == ~IsNaN(x) /\ x[1] > n * x[2]
\* !x for a number x: true of 0 and of NaN.
Falsy(x) == IsNaN(x) \/ x[1] = 0

\* Texts the amount field holds in this model, and parseFloat of each.
Texts == {"", "0", "-5", "1", "15000", "1000000000", "1000000001"}
ParseFloat(text) ==
    CASE text = "" -> NaN
      [] text = "0" -> Num(0)
      [] text = "-5" -> Num(-5)
      [] text = "1" -> Num(1)
      [] text = "15000" -> Num(15000)
      [] text = "1000000000" -> Num(1000000000)
      [] text = "1000000001" -> Num(1000000001)
      [] OTHER -> NaN

\* The text an amount is written as when it is assigned to the amount field.
NumberText(x) ==
    IF \E text \in Texts : text # "" /\ ParseFloat(text) = x
    THEN CHOOSE text \in Texts : text # "" /\ ParseFloat(text) = x
    ELSE ""

(***************************************************************************)
(* Dates and their JSON form.  A Date is valid with a time value in ms, or *)
(* an Invalid Date.  JSON.stringify writes a valid Date as its ISO string  *)
(* and an Invalid Date as null; new Date(v) of an ISO string gives that    *)
(* instant, of null gives the epoch, of any other string or of undefined   *)
(* gives an Invalid Date.                                                  *)
(***************************************************************************)
DateOf(ms) == [valid |-> TRUE, ms |-> ms]
InvalidDate == [valid |-> FALSE, ms |-> 0]
NoDate == [valid |-> FALSE, ms |-> -1]      \* lastUpdateTime: null

JIso(ms) == [t |-> "iso", ms |-> ms]
JNull == [t |-> "null", ms |-> 0]
JText == [t |-> "text", ms |-> 0]           \* a string that is no date
JMissing == [t |-> "undefined", ms |-> 0]   \* the property is absent

DateToJSON(date) == IF date.valid THEN JIso(date.ms) ELSE JNull

NewDate(v) ==
    CASE v.t = "iso" -> DateOf(v.ms)
      [] v.t = "null" -> DateOf(0)
      [] OTHER -> InvalidDate

(***************************************************************************)
(* The store.  window.conversionHistoryData is undefined, or a string:     *)
(* the empty string, a text JSON.parse rejects, the JSON text of a value   *)
(* that is no array, or the JSON text of an array of items.                *)
(***************************************************************************)
Blob(kind, items) == [kind |-> kind, items |-> items]
BlobUndefined == Blob("undefined", <<>>)
BlobEmptyString == Blob("empty", <<>>)
BlobUnparseable == Blob("unparseable", <<>>)
BlobNotArray == Blob("notarray", <<>>)

\* One side of a conversion; present is FALSE when the property is absent.
Side(amount, currency) == [present |-> TRUE, amount |-> amount, currency |-> currency]
NoSide == [present |-> FALSE, amount |-> NaN, currency |-> ""]

\* JSON.stringify of one record: finite numbers and strings are written as
\* they are, the Date by its toJSON.
RecordToJSON(c) ==
    [from |-> c.from, to |-> c.to, rate |-> c.rate, timestamp |-> DateToJSON(c.timestamp)]

\* JSON.stringify(conversionHistory)
Stringify(history) ==
    Blob("array", [i \in 1..Len(history) |-> RecordToJSON(history[i])])

\* Mutant: the fields are copied one by one and the rate is forgotten.
ReviveItemDropsRate(item) ==
    [from |-> item.from, to |-> item.to, rate |-> NaN,
     timestamp |-> NewDate(item.timestamp)]

\* (item) => ({...item, timestamp: new Date(item.timestamp)})
ReviveItem(item) ==
    [from |-> item.from, to |-> item.to, rate |-> item.rate,
     timestamp |-> NewDate(item.timestamp)]

(***************************************************************************)
(* The state as one record, so that a handler is an operator on it.        *)
(***************************************************************************)
St ==
    [exchangeRates |-> exchangeRates, currencies |-> currencies,
     conversionHistory |-> conversionHistory, appState |-> appState,
     elements |-> elements, options |-> options,
     conversionHistoryData |-> conversionHistoryData, pending |-> pending,
     now |-> now, fetchCalls |-> fetchCalls, started |-> started,
     listening |-> listening, autoRefresh |-> autoRefresh,
     debounceTimer |-> debounceTimer, inThrottle |-> inThrottle,
     throttleDue |-> throttleDue,
     timers |-> timers, requests |-> requests, hidden |-> hidden, online |-> online,
     refreshDue |-> refreshDue]

Commit(s) ==
    /\ exchangeRates' = s.exchangeRates
    /\ currencies' = s.currencies
    /\ conversionHistory' = s.conversionHistory
    /\ appState' = s.appState
    /\ elements' = s.elements
    /\ options' = s.options
    /\ conversionHistoryData' = s.conversionHistoryData
    /\ pending' = s.pending
    /\ now' = s.now
    /\ fetchCalls' = s.fetchCalls
    /\ started' = s.started
    /\ listening' = s.listening
    /\ autoRefresh' = s.autoRefresh
    /\ debounceTimer' = s.debounceTimer
    /\ inThrottle' = s.inThrottle
    /\ throttleDue' = s.throttleDue
    /\ timers' = s.timers
    /\ requests' = s.requests
    /\ hidden' = s.hidden
    /\ online' = s.online
    /\ refreshDue' = s.refreshDue

(***************************************************************************)
(* Messages                                                                *)
(***************************************************************************)
MsgInit == "Gagal memuat aplikasi. Silakan refresh halaman."
MsgLoad == "Gagal memuat data mata uang dari server"
MsgRate == "Gagal mendapatkan nilai tukar mata uang"
MsgPositive == "Jumlah harus lebih besar dari 0"
MsgTooLarge == "Jumlah terlalu besar. Maksimal 1 miliar"
MsgConvert == "Gagal melakukan konversi mata uang"
MsgNoHistory == "Tidak ada riwayat untuk dihapus"
MsgRefresh == "Gagal memperbarui nilai tukar"
MsgTimeout == "Request timeout - server tidak merespons"
MsgNetwork == "Failed to fetch"
MsgHttp == "HTTP error! status: 500"
MsgSyntax == "Unexpected end of JSON input"
MsgFormat == "Invalid API response format"
MsgNotAvailable == "Exchange rate not available for "
MsgTypeError == "Cannot read properties of undefined"
MsgOffline == "Koneksi internet terputus. Menggunakan nilai tukar terakhir yang tersimpan."

(***************************************************************************)
(* Display functions                                                       *)
(***************************************************************************)
\* 10^decimals
RECURSIVE Pow10(_)
Pow10(decimals) == IF decimals = 0 THEN 1 ELSE 10 * Pow10(decimals - 1)

\* formatNumber: the number rounded to at most `decimals` fraction digits,
\* halves away from zero (Intl.NumberFormat), and 0 for NaN.  The text is
\* modelled by the number its digits denote.
FormatNumber(number, decimals) ==
    IF IsNaN(number)
    THEN Num(0)
    ELSE IF Pow10(decimals) % number[2] = 0
         THEN number
         ELSE LET sign == IF number[1] < 0 THEN -1 ELSE 1
                  units == (2 * Abs(number[1]) * Pow10(decimals) + number[2])
                               \div (2 * number[2])
              IN  Frac(sign * units, Pow10(decimals))

\* What a field of the result area shows: nothing, the spinner, or a text
\* made of a number and of the currency whose symbol it carries.
Shown(kind, amount, currency) == [kind |-> kind, amount |-> amount, currency |-> currency]
Blank == Shown("blank", Num(0), "")
Spinner == Shown("spinner", Num(0), "")

\* formatCurrency: the symbol of the currency and the amount with 2 digits.
FormatCurrency(amount, currency) ==
    IF IsNaN(amount)
    THEN Shown("text", Num(0), "")
    ELSE Shown("text", FormatNumber(amount, 2), currency)

\* The line under the result: nothing, "Memuat nilai tukar...", or
\* `1 ${fromCurrency} = ${formatNumber(rate)} ${toCurrency}`.
RateLine(kind, fromCurrency, rate, toCurrency) ==
    [kind |-> kind, from |-> fromCurrency, rate |-> rate, to |-> toCurrency]
NoRateLine == RateLine("blank", "", Num(0), "")
LoadingLine == RateLine("loading", "", Num(0), "")

ShowResult(s) == [s EXCEPT !.elements.resultDisplay = "block"]

HideResult(s) == [s EXCEPT !.elements.resultDisplay = "none"]

ShowError(s, message) ==
    HideResult([s EXCEPT !.elements.errorMessage = message,
                         !.elements.errorDisplay = "block"])

HideError(s) == [s EXCEPT !.elements.errorDisplay = "none"]

ShowLoading(s, show) ==
    IF show
    THEN ShowResult([s EXCEPT !.appState.isLoading = TRUE,
                              !.elements.resultAmount = Spinner,
                              !.elements.exchangeRate = LoadingLine])
    ELSE [s EXCEPT !.appState.isLoading = FALSE]

(***************************************************************************)
(* History                                                                 *)
(***************************************************************************)
\* new Date(): the clock's reading; successive readings are distinct instants.
ReadClock(s) == DateOf(s.now)
Tick(s) == [s EXCEPT !.now = @ + 1]

\* updateHistoryDisplay renders every record and throws at the first one it
\* cannot render: conversion.from.currency of an absent `from` (or `to`) is a
\* TypeError, Intl.DateTimeFormat.format of an Invalid Date a RangeError.
UpdateHistoryDisplayThrows(history) ==
    \E i \in 1..Len(history) :
        \/ ~history[i].from.present
        \/ ~history[i].to.present
        \/ ~history[i].timestamp.valid

\* Mutant: the history is not written to the store.
SaveHistoryToStorageSkipped(s) == s

SaveHistoryToStorage(s) ==
    [s EXCEPT !.conversionHistoryData = Stringify(s.conversionHistory)]

\* conversionHistory.slice(0, 50)
Slice(history, n) == SubSeq(history, 1, IF Len(history) < n THEN Len(history) ELSE n)

\* Mutant: the limit keeps the oldest 50 records, not the newest.
AddToHistoryKeepsOldest(s, conversion) ==
    LET unshifted == <<conversion>> \o s.conversionHistory
        limited == IF Len(unshifted) > HistoryLimit
                   THEN SubSeq(unshifted, Len(unshifted) - HistoryLimit + 1, Len(unshifted))
                   ELSE unshifted
    IN  SaveHistoryToStorage([s EXCEPT !.conversionHistory = limited])

AddToHistory(s, conversion) ==
    LET unshifted == <<conversion>> \o s.conversionHistory
        limited == IF Len(unshifted) > HistoryLimit
                   THEN Slice(unshifted, HistoryLimit)
                   ELSE unshifted
    IN  SaveHistoryToStorage([s EXCEPT !.conversionHistory = limited])

ClearHistory(s, confirmed) ==
    IF Len(s.conversionHistory) = 0
    THEN ShowError(s, MsgNoHistory)
    ELSE IF confirmed
         THEN SaveHistoryToStorage([s EXCEPT !.conversionHistory = <<>>])
         ELSE s

\* Mutant: the catch does not reset conversionHistory.
LoadHistoryFromStorageNoReset(s) ==
    LET saved == s.conversionHistoryData
        revived == [i \in 1..Len(saved.items) |-> ReviveItem(saved.items[i])]
    IN  IF saved.kind = "array"
        THEN [s EXCEPT !.conversionHistory = revived]
        ELSE s

\* JSON.parse(savedHistory).map(...) and the rendering that follows, inside
\* the try: any throw leaves conversionHistory = [].
LoadHistoryFromStorage(s) ==
    LET saved == s.conversionHistoryData
        revived == [i \in 1..Len(saved.items) |-> ReviveItem(saved.items[i])]
    IN  IF saved.kind \in {"undefined", "empty"}
        THEN IF UpdateHistoryDisplayThrows(s.conversionHistory)
             THEN [s EXCEPT !.conversionHistory = <<>>]
             ELSE s
        ELSE IF saved.kind # "array"
             THEN [s EXCEPT !.conversionHistory = <<>>]
             ELSE IF UpdateHistoryDisplayThrows(revived)
                  THEN [s EXCEPT !.conversionHistory = <<>>]
                  ELSE [s EXCEPT !.conversionHistory = revived]

\* elements.<select>.value = v: a select takes a value only if it has an
\* option with that value, and shows no selection ("") otherwise.
SelectValue(opts, v) == IF v \in opts THEN v ELSE ""

UseHistoryItem(s, index) ==
    IF index > Len(s.conversionHistory)
    THEN s
    ELSE LET conversion == s.conversionHistory[index]
         IN  [s EXCEPT !.elements.fromAmount = NumberText(conversion.from.amount),
                       !.elements.fromCurrency = SelectValue(s.options, conversion.from.currency),
                       !.elements.toCurrency = SelectValue(s.options, conversion.to.currency)]

(***************************************************************************)
(* The rate provider.  A response body is JSON whose rates field is        *)
(* absent, is no object, is an array (whose table of currency codes is     *)
(* empty), or is a table from currency code to a positive number.          *)
(***************************************************************************)
EmptyTable == [c \in {} |-> 0]
TableFull == [c \in {"USD", "IDR", "VND"} |-> IF c = "IDR" THEN 2 ELSE 1]
TableNoIdr == [c \in {"USD", "VND"} |-> IF c = "USD" THEN 1 ELSE 2]
TableNoUsd == [c \in {"IDR"} |-> 2]
Tables == {TableFull, TableNoIdr, TableNoUsd}

Body(rates, table) == [rates |-> rates, table |-> table]
Bodies ==
    {Body("absent", EmptyTable), Body("notobject", EmptyTable)}
        \cup {Body("table", table) : table \in Tables}

\* How a fetch() suspended in fetchWithTimeout settles: the timer aborts it,
\* the transport fails, or a response arrives with or without an ok status.
FetchOutcomes == {"timeout", "network", "http", "ok"}

\* table[code] is truthy
Has(table, code) == code \in DOMAIN table /\ table[code] # 0

(***************************************************************************)
(* Suspended async functions.  fn is the function awaiting the fetch,      *)
(* caller the function awaiting fn, stage the await it is suspended at;    *)
(* amount, from and to are the locals of performConversion; from is also  *)
(* the base currency of the URL.  id names the fetch() call and deadline   *)
(* is the instant its timeout is due; fetchWithTimeout sets both.          *)
(***************************************************************************)
LoadTask(caller) ==
    [fn |-> "loadCurrencies", caller |-> caller, stage |-> "fetch",
     amount |-> NaN, from |-> "USD", to |-> "", id |-> 0, deadline |-> 0]

RateTask(amount, from, to) ==
    [fn |-> "getExchangeRate", caller |-> "performConversion", stage |-> "fetch",
     amount |-> amount, from |-> from, to |-> to, id |-> 0, deadline |-> 0]

\* setTimeout(callback, delay) armed at s.now for the fetch `id`.
Timer(id, deadline) == [id |-> id, deadline |-> deadline]

Later(a, b) == IF a > b THEN a ELSE b

\* fetchWithTimeout(url, timeout) up to its await: the timer is armed and
\* the request is sent.
FetchWithTimeout(s, task) ==
    LET id == s.fetchCalls + 1
        deadline == s.now + Timeout
    IN  [s EXCEPT !.timers = @ \cup {Timer(id, deadline)},
                  !.requests = @ \cup {id},
                  !.pending = Append(@, [task EXCEPT !.id = id, !.deadline = deadline]),
                  !.fetchCalls = id]

RemoveAt(seq, i) == SubSeq(seq, 1, i - 1) \o SubSeq(seq, i + 1, Len(seq))

PushError(s, message, fn) ==
    Tick([s EXCEPT !.appState.errors =
              Append(@, [message |-> message, timestamp |-> ReadClock(s), function |-> fn])])

(***************************************************************************)
(* getExchangeRate and performConversion                                   *)
(***************************************************************************)
\* Mutant: no shortcut for equal currencies.
GetExchangeRateNoShortcut(rates, fromCurrency, toCurrency) ==
    IF Has(rates, fromCurrency) /\ Has(rates, toCurrency)
    THEN [cached |-> TRUE, rate |-> Div(Num(rates[toCurrency]), Num(rates[fromCurrency]))]
    ELSE [cached |-> FALSE, rate |-> NaN]

\* Mutant: the cross rate is taken the wrong way round.
GetExchangeRateInverted(rates, fromCurrency, toCurrency) ==
    IF fromCurrency = toCurrency
    THEN [cached |-> TRUE, rate |-> Num(1)]
    ELSE IF Has(rates, fromCurrency) /\ Has(rates, toCurrency)
         THEN [cached |-> TRUE, rate |-> Div(Num(rates[fromCurrency]), Num(rates[toCurrency]))]
         ELSE [cached |-> FALSE, rate |-> NaN]

\* getExchangeRate up to its first await: the rate, or the need to fetch.
GetExchangeRate(rates, fromCurrency, toCurrency) ==
    IF fromCurrency = toCurrency
    THEN [cached |-> TRUE, rate |-> Num(1)]
    ELSE IF Has(rates, fromCurrency) /\ Has(rates, toCurrency)
         THEN [cached |-> TRUE, rate |-> Div(Num(rates[toCurrency]), Num(rates[fromCurrency]))]
         ELSE [cached |-> FALSE, rate |-> NaN]

\* performConversion from the rate on: the result is shown and recorded.
\* A throw of the rendering in addToHistory reaches the catch.
Converted(s, fromAmount, fromCurrency, toCurrency, rate) ==
    LET convertedAmount == Mul(fromAmount, rate)
        conversion == [from |-> Side(fromAmount, fromCurrency),
                       to |-> Side(convertedAmount, toCurrency),
                       rate |-> rate,
                       timestamp |-> ReadClock(s)]
        updated == [s EXCEPT !.elements.toAmount =
                                 Shown("text", FormatNumber(convertedAmount, 4), ""),
                             !.elements.resultAmount =
                                 FormatCurrency(convertedAmount, toCurrency),
                             !.elements.exchangeRate =
                                 RateLine("rate", fromCurrency, FormatNumber(rate, 4),
                                          toCurrency)]
        added == AddToHistory(Tick(ShowResult(updated)), conversion)
    IN  IF UpdateHistoryDisplayThrows(added.conversionHistory)
        THEN ShowLoading(ShowError(added, MsgTypeError), FALSE)
        ELSE ShowLoading(added, FALSE)

\* Mutant: the upper limit is tested with >= instead of >.
ValidateLimitExclusive(fromAmount, fromCurrency, toCurrency) ==
    IF Falsy(fromAmount) \/ fromCurrency = "" \/ toCurrency = ""
    THEN "silent"
    ELSE IF LeqInt(fromAmount, 0)
         THEN MsgPositive
         ELSE IF ~LeqInt(fromAmount, MaxAmount - 1)
              THEN MsgTooLarge
              ELSE "valid"

\* Mutant: the currencies are not tested.
ValidateAmountOnly(fromAmount, fromCurrency, toCurrency) ==
    IF Falsy(fromAmount)
    THEN "silent"
    ELSE IF LeqInt(fromAmount, 0)
         THEN MsgPositive
         ELSE IF GtInt(fromAmount, MaxAmount)
              THEN MsgTooLarge
              ELSE "valid"

\* The validation of performConversion: "silent", an error message, or "valid".
Validate(fromAmount, fromCurrency, toCurrency) ==
    IF Falsy(fromAmount) \/ fromCurrency = "" \/ toCurrency = ""
    THEN "silent"
    ELSE IF LeqInt(fromAmount, 0)
         THEN MsgPositive
         ELSE IF GtInt(fromAmount, MaxAmount)
              THEN MsgTooLarge
              ELSE "valid"

PerformConversion(s) ==
    LET fromAmount == ParseFloat(s.elements.fromAmount)
        fromCurrency == s.elements.fromCurrency
        toCurrency == s.elements.toCurrency
        verdict == Validate(fromAmount, fromCurrency, toCurrency)
        loading == HideError(ShowLoading(s, TRUE))
        lookup == GetExchangeRate(s.exchangeRates, fromCurrency, toCurrency)
    IN  IF verdict = "silent"
        THEN HideResult(s)
        ELSE IF verdict # "valid"
             THEN ShowError(s, verdict)
             ELSE IF lookup.cached
                  THEN Converted(loading, fromAmount, fromCurrency, toCurrency, lookup.rate)
                  ELSE FetchWithTimeout(loading, RateTask(fromAmount, fromCurrency, toCurrency))

\* `Exchange rate not available for ${toCurrency}`
NotAvailable(toCurrency) == MsgNotAvailable \o toCurrency

\* Mutant: the catch of performConversion resets the history.
RateFailedResetsHistory(s, message) ==
    ShowLoading(ShowError(PushError([s EXCEPT !.conversionHistory = <<>>],
                                    message, "getExchangeRate"), MsgRate), FALSE)

\* Mutant: the catch of performConversion shows the diagnostic it was given.
RateFailedRaw(s, message) ==
    ShowLoading(ShowError(PushError(s, message, "getExchangeRate"), message), FALSE)

\* The catch of getExchangeRate followed by the catch of performConversion.
RateFailed(s, message) ==
    ShowLoading(ShowError(PushError(s, message, "getExchangeRate"), MsgRate), FALSE)

\* Mutant: a response is dropped unless it answers the latest request.
RateBodyLatestOnly(s, task, body) ==
    IF task.id # s.fetchCalls
    THEN s
    ELSE IF body.rates # "table" \/ ~Has(body.table, task.to)
         THEN RateFailed(s, NotAvailable(task.to))
         ELSE Converted([s EXCEPT !.appState.apiCallCount = @ + 1],
                        task.amount, task.from, task.to, Num(body.table[task.to]))

\* Mutant: the fetched table is kept as the cache.
RateBodyCaches(s, task, body) ==
    IF body.rates # "table" \/ ~Has(body.table, task.to)
    THEN RateFailed(s, NotAvailable(task.to))
    ELSE Converted([s EXCEPT !.appState.apiCallCount = @ + 1,
                             !.exchangeRates = body.table],
                   task.amount, task.from, task.to, Num(body.table[task.to]))

\* getExchangeRate after response.json(), then the rest of performConversion.
RateBody(s, task, body) ==
    IF body.rates # "table" \/ ~Has(body.table, task.to)
    THEN RateFailed(s, NotAvailable(task.to))
    ELSE Converted([s EXCEPT !.appState.apiCallCount = @ + 1],
                   task.amount, task.from, task.to, Num(body.table[task.to]))

\* Mutant: the target selection is assigned after the source selection was
\* overwritten, so both selects show the old target.
SwapCurrenciesOneWay(s) ==
    LET fromCurrency == s.elements.fromCurrency
        toCurrency == s.elements.toCurrency
        swapped == [s EXCEPT !.elements.fromCurrency = toCurrency,
                             !.elements.toCurrency = toCurrency]
    IN  IF fromCurrency # "" /\ toCurrency # ""
        THEN IF s.elements.fromAmount # "" THEN PerformConversion(swapped) ELSE swapped
        ELSE s

SwapCurrencies(s) ==
    LET fromCurrency == s.elements.fromCurrency
        toCurrency == s.elements.toCurrency
        swapped == [s EXCEPT !.elements.fromCurrency = toCurrency,
                             !.elements.toCurrency = fromCurrency]
    IN  IF fromCurrency # "" /\ toCurrency # ""
        THEN IF s.elements.fromAmount # "" THEN PerformConversion(swapped) ELSE swapped
        ELSE s

(***************************************************************************)
(* loadCurrencies and its callers                                          *)
(***************************************************************************)
\* Object.keys(table).sort()
SortedKeys(table) ==
    LET InTable(c) == c \in DOMAIN table
    IN  SelectSeq(ProviderCodes, InTable)

Supported(c) == c \in CURRENCY_INFO

\* loadCurrencies from a well-formed body on.
LoadCurrenciesOk(s, table) ==
    LET keys == SortedKeys(table)
        hasUsd == \E i \in 1..Len(keys) : keys[i] = "USD"
        rates == IF hasUsd THEN table
                 ELSE [c \in DOMAIN table \cup {"USD"} |-> IF c = "USD" THEN 1 ELSE table[c]]
        listed == IF hasUsd THEN keys ELSE <<"USD">> \o keys
    IN  HideError(Tick([s EXCEPT !.exchangeRates = rates,
                                 !.currencies = SelectSeq(listed, Supported),
                                 !.appState.lastUpdateTime = ReadClock(s),
                                 !.appState.apiCallCount = @ + 1]))

\* populateCurrencySelects: both selects are rebuilt, with one option for
\* each listed currency that CURRENCY_INFO knows, and show the placeholder.
PopulateCurrencySelects(s) ==
    [s EXCEPT !.options = {s.currencies[i] : i \in {j \in 1..Len(s.currencies) :
                                                       s.currencies[j] \in CURRENCY_INFO}},
              !.elements.fromCurrency = "",
              !.elements.toCurrency = ""]

SetDefaultCurrencies(s) ==
    [s EXCEPT !.elements.fromCurrency = SelectValue(s.options, "USD"),
              !.elements.toCurrency = SelectValue(s.options, "IDR")]

\* initializeApp after loadCurrencies resolved, then startAutoRefresh.
InitializeAppOk(s) ==
    LET loaded == LoadHistoryFromStorage(SetDefaultCurrencies(PopulateCurrencySelects(s)))
    IN  [ShowLoading([loaded EXCEPT !.listening = TRUE], FALSE)
            EXCEPT !.autoRefresh = TRUE, !.refreshDue = s.now + RefreshInterval]

\* The catch of initializeApp, then startAutoRefresh.
InitializeAppFailed(s) ==
    [ShowLoading(ShowError(s, MsgInit), FALSE)
        EXCEPT !.autoRefresh = TRUE, !.refreshDue = s.now + RefreshInterval]

\* refreshExchangeRates after loadCurrencies resolved.
RefreshOk(s) ==
    IF s.elements.fromAmount # "" /\ s.elements.fromCurrency # "" /\ s.elements.toCurrency # ""
    THEN PerformConversion(s)
    ELSE s

\* refreshExchangeRates up to its await of loadCurrencies.
RefreshExchangeRates(s) == FetchWithTimeout(s, LoadTask("refreshExchangeRates"))

\* Date.now() - appState.lastUpdateTime.getTime()
TimeDiff(s) == s.now - s.appState.lastUpdateTime.ms

HandleVisibilityChange(s) ==
    IF ~s.hidden /\ s.appState.lastUpdateTime.valid
    THEN IF TimeDiff(s) > FiveMinutes THEN RefreshExchangeRates(s) ELSE s
    ELSE s

HandleOnlineStatus(s) ==
    LET shown == HideError(s)
    IN  IF ~shown.appState.lastUpdateTime.valid \/ TimeDiff(shown) > OnlineStale
        THEN RefreshExchangeRates(shown)
        ELSE shown

HandleOfflineStatus(s) == ShowError(s, MsgOffline)

\* The catch of loadCurrencies, then what its caller does with the throw.
LoadFailed(s, task, message) ==
    LET logged == PushError(s, message, "loadCurrencies")
    IN  CASE task.caller = "initializeApp" -> InitializeAppFailed(logged)
          [] task.caller = "refreshExchangeRates" -> ShowError(logged, MsgRefresh)
          [] OTHER -> logged

\* loadCurrencies after response.json(), then the rest of its caller.
LoadBody(s, task, body) ==
    IF body.rates \notin {"table", "array"}
    THEN LoadFailed(s, task, MsgFormat)
    ELSE LET loaded == LoadCurrenciesOk(s, body.table)
         IN  CASE task.caller = "initializeApp" -> InitializeAppOk(loaded)
               [] task.caller = "refreshExchangeRates" -> RefreshOk(loaded)
               [] OTHER -> loaded

\* Mutant: clearTimeout is not called when the fetch settles.
SettleKeepsTimer(s, i, outcome) ==
    LET task == s.pending[i]
        settled == [s EXCEPT !.requests = @ \ {task.id},
                             !.now = IF outcome = "timeout" THEN Later(@, task.deadline) ELSE @]
        rest == [settled EXCEPT !.pending = RemoveAt(@, i)]
        message == CASE outcome = "timeout" -> MsgTimeout
                     [] outcome = "network" -> MsgNetwork
                     [] OTHER -> MsgHttp
    IN  IF outcome = "ok"
        THEN [settled EXCEPT !.pending[i].stage = "json"]
        ELSE IF task.fn = "loadCurrencies"
             THEN LoadFailed(rest, task, message)
             ELSE RateFailed(rest, message)

\* The awaited fetchWithTimeout settles for pending[i].  "timeout": the
\* clock reaches the deadline (if it has not yet), the timer's callback
\* aborts the request and the catch runs; any other outcome: the transport
\* settles the request and the timer is cleared.
Settle(s, i, outcome) ==
    LET task == s.pending[i]
        settled == [s EXCEPT !.timers = @ \ {Timer(task.id, task.deadline)},
                             !.requests = @ \ {task.id},
                             !.now = IF outcome = "timeout" THEN Later(@, task.deadline) ELSE @]
        rest == [settled EXCEPT !.pending = RemoveAt(@, i)]
        message == CASE outcome = "timeout" -> MsgTimeout
                     [] outcome = "network" -> MsgNetwork
                     [] OTHER -> MsgHttp
    IN  IF outcome = "ok"
        THEN [settled EXCEPT !.pending[i].stage = "json"]
        ELSE IF task.fn = "loadCurrencies"
             THEN LoadFailed(rest, task, message)
             ELSE RateFailed(rest, message)

\* The awaited response.json() rejects for pending[i].
JsonRejects(s, i) ==
    LET task == s.pending[i]
        rest == [s EXCEPT !.pending = RemoveAt(@, i)]
    IN  IF task.fn = "loadCurrencies"
        THEN LoadFailed(rest, task, MsgSyntax)
        ELSE RateFailed(rest, MsgSyntax)

\* The awaited response.json() resolves with `body` for pending[i].
JsonResolves(s, i, body) ==
    LET task == s.pending[i]
        rest == [s EXCEPT !.pending = RemoveAt(@, i)]
    IN  IF task.fn = "loadCurrencies"
        THEN LoadBody(rest, task, body)
        ELSE RateBody(rest, task, body)

(***************************************************************************)
(* Tasks of the event loop                                                 *)
(***************************************************************************)
\* DOMContentLoaded: initializeApp up to its await of loadCurrencies.
DOMContentLoaded ==
    /\ ~started
    /\ Commit(FetchWithTimeout(ShowLoading([St EXCEPT !.started = TRUE], TRUE),
                               LoadTask("initializeApp")))

FetchSettles(i, outcome) ==
    /\ i \in 1..Len(pending)
    /\ pending[i].stage = "fetch"
    /\ outcome = "timeout" => Timer(pending[i].id, pending[i].deadline) \in timers
    /\ Commit(Settle(St, i, outcome))

BodyRejects(i) ==
    /\ i \in 1..Len(pending)
    /\ pending[i].stage = "json"
    /\ Commit(JsonRejects(St, i))

BodyResolves(i, body) ==
    /\ i \in 1..Len(pending)
    /\ pending[i].stage = "json"
    /\ Commit(JsonResolves(St, i, body))

\* "input" on the amount field: the debounced conversion is (re)scheduled.
AmountInput(text) ==
    /\ listening
    /\ text # elements.fromAmount
    /\ Commit([St EXCEPT !.elements.fromAmount = text, !.debounceTimer = TRUE])

\* The debounce timer fires: later() calls performConversion.
DebounceFires ==
    /\ debounceTimer
    /\ Commit(PerformConversion([St EXCEPT !.debounceTimer = FALSE]))

\* "change" on a currency select: the user picked another of its options.
FromCurrencyChange(c) ==
    /\ listening
    /\ c \in options \cup {""}
    /\ c # elements.fromCurrency
    /\ Commit(PerformConversion([St EXCEPT !.elements.fromCurrency = c]))

ToCurrencyChange(c) ==
    /\ listening
    /\ c \in options \cup {""}
    /\ c # elements.toCurrency
    /\ Commit(PerformConversion([St EXCEPT !.elements.toCurrency = c]))

FormSubmit ==
    /\ listening
    /\ Commit(PerformConversion(St))

\* "click" on the swap button: throttledSwap drops it while inThrottle, and
\* otherwise runs swapCurrencies, sets the flag and arms the timer.
SwapClick ==
    /\ listening
    /\ Commit(IF inThrottle
              THEN St
              ELSE [SwapCurrencies(St) EXCEPT !.inThrottle = TRUE,
                                              !.throttleDue = now + ThrottleLimit])

\* The timer of throttledSwap fires: the clock reaches the instant it is due.
ThrottleExpires ==
    /\ inThrottle
    /\ Commit([St EXCEPT !.inThrottle = FALSE, !.now = Later(@, throttleDue)])

\* Ctrl/Cmd+S calls swapCurrencies itself.
KeySwap ==
    /\ listening
    /\ Commit(SwapCurrencies(St))

\* Ctrl/Cmd+R: refreshExchangeRates up to its await of loadCurrencies.
KeyRefresh ==
    /\ listening
    /\ Commit(FetchWithTimeout(St, LoadTask("refreshExchangeRates")))

KeyEscape ==
    /\ listening
    /\ Commit(HideError(HideResult([St EXCEPT !.elements.fromAmount = "",
                                              !.elements.toAmount = Blank])))

ClearHistoryClick(confirmed) ==
    /\ listening
    /\ Commit(ClearHistory(St, confirmed))

HistoryItemClick(index) ==
    /\ index \in 1..Len(conversionHistory)
    /\ Commit(UseHistoryItem(St, index))

\* The interval of startAutoRefresh fires: the clock reaches the instant it
\* is due (if it has not yet) and the callback runs; the interval is due
\* again RefreshInterval later.
AutoRefreshTimer ==
    /\ autoRefresh
    /\ LET due == [St EXCEPT !.now = Later(@, refreshDue),
                             !.refreshDue = @ + RefreshInterval]
       IN  Commit(IF ~hidden /\ online
                  THEN FetchWithTimeout(due, LoadTask("autoRefresh"))
                  ELSE due)

\* "visibilitychange": document.hidden has changed.
VisibilityChange ==
    LET changed == [St EXCEPT !.hidden = ~@]
    IN  Commit(IF listening THEN HandleVisibilityChange(changed) ELSE changed)

\* "online": navigator.onLine has become true.
Online ==
    /\ ~online
    /\ LET changed == [St EXCEPT !.online = TRUE]
       IN  Commit(IF listening THEN HandleOnlineStatus(changed) ELSE changed)

\* "offline": navigator.onLine has become false.
Offline ==
    /\ online
    /\ LET changed == [St EXCEPT !.online = FALSE]
       IN  Commit(IF listening THEN HandleOfflineStatus(changed) ELSE changed)

\* The event loop is idle for d ms.  A timer that is due runs before the
\* loop idles on: idle time does not pass the instant an armed timer is due.
TimePasses(d) ==
    /\ \A timer \in timers : now + d <= timer.deadline
    /\ autoRefresh => now + d <= refreshDue
    /\ inThrottle => now + d <= throttleDue
    /\ now' = now + d
    /\ UNCHANGED <<exchangeRates, currencies, conversionHistory, appState, elements,
                   options, conversionHistoryData, pending, fetchCalls, started,
                   listening, autoRefresh, debounceTimer, inThrottle, throttleDue,
                   timers, requests, hidden, online, refreshDue>>

(***************************************************************************)
(* Specifications                                                          *)
(***************************************************************************)
InitWith(blob) ==
    /\ exchangeRates = EmptyTable
    /\ currencies = <<>>
    /\ conversionHistory = <<>>
    /\ appState = [isLoading |-> FALSE, lastUpdateTime |-> NoDate,
                   apiCallCount |-> 0, errors |-> <<>>]
    /\ elements = [fromAmount |-> "", fromCurrency |-> "", toCurrency |-> "",
                   toAmount |-> Blank, resultAmount |-> Blank, exchangeRate |-> NoRateLine,
                   resultDisplay |-> "none", errorDisplay |-> "none", errorMessage |-> ""]
    /\ options = {}
    /\ conversionHistoryData = blob
    /\ pending = <<>>
    /\ now = 1
    /\ fetchCalls = 0
    /\ started = FALSE
    /\ listening = FALSE
    /\ autoRefresh = FALSE
    /\ debounceTimer = FALSE
    /\ inThrottle = FALSE
    /\ throttleDue = 0
    /\ timers = {}
    /\ requests = {}
    /\ hidden = FALSE
    /\ online = TRUE
    /\ refreshDue = 0

\* The page as the browser loads it: the window variable is not set.
Init == InitWith(BlobUndefined)

\* Spec: one user at a time.  The user types, selects, submits or refreshes
\* when no fetch is outstanding and within the bound.
Within == now <= MaxNow /\ pending = <<>>

\* Texts typed into the amount field in Spec.
AmountTexts == {"", "0", "-5", "1000000000", "1000000001"}

Next ==
    \/ DOMContentLoaded
    \/ \E i \in DOMAIN pending, outcome \in FetchOutcomes : FetchSettles(i, outcome)
    \/ \E i \in DOMAIN pending : BodyRejects(i)
    \/ \E i \in DOMAIN pending, body \in Bodies : BodyResolves(i, body)
    \/ \E text \in AmountTexts : Within /\ AmountInput(text)
    \/ Within /\ DebounceFires
    \/ \E c \in CURRENCY_INFO \cup {""} : Within /\ FromCurrencyChange(c)
    \/ \E c \in CURRENCY_INFO \cup {""} : Within /\ ToCurrencyChange(c)
    \/ Within /\ FormSubmit
    \/ Within /\ KeyRefresh

Spec == Init /\ [][Next]_vars

(***************************************************************************)
(* The history and its store.  The store is an external slot: at startup   *)
(* it may hold anything.  The provider answers the one load of the session *)
(* with TableFull and the user converts 1 USD to IDR again and again.      *)
(***************************************************************************)
\* The k-th newest record of an earlier session, as JSON.
StoredItem(k) ==
    [from |-> Side(Num(1), "USD"), to |-> Side(Num(2), "IDR"), rate |-> Num(2),
     timestamp |-> JIso(-k)]

StoredItems(n) == [k \in 1..n |-> StoredItem(k)]

\* {...5}: an item that is no object has none of the properties.
ScalarItem == [from |-> NoSide, to |-> NoSide, rate |-> NaN, timestamp |-> JMissing]

BlobBadTimestamp ==
    Blob("array", <<StoredItem(1), [StoredItem(2) EXCEPT !.timestamp = JText], StoredItem(3)>>)
BlobNoTimestamp ==
    Blob("array", <<StoredItem(1), [StoredItem(2) EXCEPT !.timestamp = JMissing]>>)
BlobNullTimestamp ==
    Blob("array", <<StoredItem(1), [StoredItem(2) EXCEPT !.timestamp = JNull]>>)
BlobScalars == Blob("array", <<ScalarItem, ScalarItem>>)
BlobNoFrom == Blob("array", <<StoredItem(1), [StoredItem(2) EXCEPT !.from = NoSide]>>)

\* Blobs of which the load leaves an empty history.
EmptyingBlobs ==
    {BlobUndefined, BlobEmptyString, BlobUnparseable, BlobNotArray, Blob("array", <<>>),
     BlobBadTimestamp, BlobNoTimestamp, BlobScalars, BlobNoFrom}

StoreBlobs ==
    EmptyingBlobs \cup
    {BlobNullTimestamp, Blob("array", StoredItems(2)),
     Blob("array", StoredItems(HistoryLimit)), Blob("array", StoredItems(HistoryLimit + 1))}

InitStore == \E blob \in StoreBlobs : InitWith(blob)

InitAppend == \E blob \in EmptyingBlobs : InitWith(blob)

\* The session goes on while fewer than MaxAppends conversions were made.
WithinSession == now < MaxAppends + 2

NextAppend ==
    \/ DOMContentLoaded
    \/ FetchSettles(1, "ok")
    \/ BodyResolves(1, Body("table", TableFull))
    \/ AmountInput("1")
    \/ WithinSession /\ DebounceFires
    \/ WithinSession /\ FormSubmit

NextStore ==
    \/ NextAppend
    \/ KeyEscape
    \/ \E confirmed \in BOOLEAN : ClearHistoryClick(confirmed)
    \/ \E index \in 1..(HistoryLimit + 1) : HistoryItemClick(index)

SpecStore == InitStore /\ [][NextStore]_vars

SpecAppend == InitAppend /\ [][NextAppend]_vars

(***************************************************************************)
(* A session in real time.  Time passes while the event loop is idle, the  *)
(* page is hidden and shown, the connection is lost and restored, the      *)
(* interval of startAutoRefresh fires, and the user converts 1 unit of the *)
(* selected currencies; fetches overlap with all of these.                 *)
(***************************************************************************)
\* {"rates": []}: typeof [] is "object", and an array has no currency keys.
BodyArray == Body("array", EmptyTable)

SessionBodies ==
    {Body("absent", EmptyTable), BodyArray, Body("table", TableFull), Body("table", TableNoIdr)}

\* No fetch is issued once MaxFetch were.  Idle time is followed while a
\* fetch is pending whose bound has not passed yet.
WithinFetches == fetchCalls < MaxFetch
Awaited == \E i \in DOMAIN pending : now <= pending[i].deadline

NextSession ==
    \/ DOMContentLoaded
    \/ \E i \in DOMAIN pending, outcome \in FetchOutcomes : FetchSettles(i, outcome)
    \/ \E i \in DOMAIN pending : BodyRejects(i)
    \/ \E i \in DOMAIN pending, body \in SessionBodies : BodyResolves(i, body)
    \/ AmountInput("1")
    \/ WithinFetches /\ pending = <<>> /\ DebounceFires
    \/ WithinFetches /\ pending = <<>> /\ KeyRefresh
    \/ Offline
    \/ Awaited /\ TimePasses(Minute)

SpecSession == Init /\ [][NextSession]_vars

(***************************************************************************)
(* Staleness.  After a startup that succeeds, time passes minute by        *)
(* minute, the page is hidden and shown, the connection is lost and        *)
(* restored and the interval fires; every response is TableFull.           *)
(***************************************************************************)
WithinMinutes(instant) == instant <= MaxMinutes * Minute

NextStale ==
    \/ DOMContentLoaded
    \/ \E i \in DOMAIN pending : FetchSettles(i, "ok")
    \/ \E i \in DOMAIN pending : BodyResolves(i, Body("table", TableFull))
    \/ WithinFetches /\ VisibilityChange
    \/ WithinFetches /\ Online
    \/ Offline
    \/ WithinFetches /\ WithinMinutes(refreshDue) /\ AutoRefreshTimer
    \/ WithinMinutes(now + Minute) /\ TimePasses(Minute)

SpecStale == Init /\ [][NextStale]_vars

(***************************************************************************)
(* Conversion requests                                                     *)
(***************************************************************************)
\* A task that is one call of performConversion by an event listener.  The
\* call leaves the three inputs it read in elements', so the primed fields
\* below are the request's amount and currencies.
ConversionRequest ==
    \/ DebounceFires
    \/ FormSubmit
    \/ FromCurrencyChange(elements'.fromCurrency)
    \/ ToCurrencyChange(elements'.toCurrency)

RequestAmount == ParseFloat(elements'.fromAmount)
RequestFrom == elements'.fromCurrency
RequestTo == elements'.toCurrency

ValidAmount(x) == GtInt(x, 0) /\ LeqInt(x, MaxAmount)

\* The step starts no fetch and counts no API call.
NoFetch ==
    /\ fetchCalls' = fetchCalls
    /\ pending' = pending
    /\ appState'.apiCallCount = appState.apiCallCount

\* The step appends exactly one record, stamped with this step's instant.
Appended ==
    /\ Len(conversionHistory') > 0
    /\ conversionHistory'[1].timestamp = DateOf(now)
    /\ \A i \in 2..Len(conversionHistory') : conversionHistory'[i] = conversionHistory[i - 1]

\* The step leaves the counter, the cache, the history and its store alone.
Untouched ==
    /\ NoFetch
    /\ exchangeRates' = exchangeRates
    /\ conversionHistory' = conversionHistory
    /\ conversionHistoryData' = conversionHistoryData

(***************************************************************************)
(* C1: for every supported currency X and every valid amount, a conversion *)
(* from X to X records rate exactly 1 and a converted amount equal to the  *)
(* amount entered, starts no fetch and leaves the API-call counter as it   *)
(* was, whatever the cache holds.                                          *)
(***************************************************************************)
C1_SameCurrencyIsIdentity ==
    [][(ConversionRequest /\ ValidAmount(RequestAmount)
            /\ RequestFrom \in CURRENCY_INFO /\ RequestTo = RequestFrom)
        => /\ Appended
           /\ conversionHistory'[1].rate = Num(1)
           /\ conversionHistory'[1].from = Side(RequestAmount, RequestFrom)
           /\ conversionHistory'[1].to = Side(RequestAmount, RequestFrom)
           /\ elements'.resultDisplay = "block"
           /\ NoFetch]_vars

\* A conversion from IDR to IDR was recorded while the cache holds no IDR.
C1_Witness ==
    /\ Len(conversionHistory) > 0
    /\ conversionHistory[1].from.currency = "IDR"
    /\ conversionHistory[1].to.currency = "IDR"
    /\ conversionHistory[1].rate = Num(1)
    /\ "IDR" \notin DOMAIN exchangeRates
    /\ pending = <<>>

(***************************************************************************)
(* C2: for every pair X # Y with both rates in the cache and every valid   *)
(* amount a, the conversion records the rate cache[Y] / cache[X] and the   *)
(* amount a * cache[Y] / cache[X], and starts no fetch.                    *)
(***************************************************************************)
C2_CachedCrossRate ==
    [][(ConversionRequest /\ ValidAmount(RequestAmount)
            /\ RequestFrom # RequestTo
            /\ RequestFrom \in DOMAIN exchangeRates /\ RequestTo \in DOMAIN exchangeRates)
        => /\ Appended
           /\ conversionHistory'[1].rate =
                  Frac(exchangeRates[RequestTo], exchangeRates[RequestFrom])
           /\ conversionHistory'[1].from = Side(RequestAmount, RequestFrom)
           /\ conversionHistory'[1].to =
                  Side(Frac(RequestAmount[1] * exchangeRates[RequestTo],
                            RequestAmount[2] * exchangeRates[RequestFrom]), RequestTo)
           /\ NoFetch]_vars

\* 1,000,000,000 IDR became 500,000,000 USD at the cached rate 1/2.
C2_Witness ==
    /\ Len(conversionHistory) > 0
    /\ conversionHistory[1].from = Side(Num(1000000000), "IDR")
    /\ conversionHistory[1].to = Side(Num(500000000), "USD")
    /\ conversionHistory[1].rate = <<1, 2>>
    /\ fetchCalls = 1

(***************************************************************************)
(* C3: a conversion request whose amount is not strictly greater than 0 or *)
(* is greater than 1,000,000,000 starts no fetch and changes neither the   *)
(* API-call counter, the cache nor the history; an amount of exactly       *)
(* 1,000,000,000 passes validation and goes on to the rate lookup (the     *)
(* loading state is entered, and a record is appended or a fetch started). *)
(***************************************************************************)
C3_InvalidAmountTouchesNothing ==
    [][ConversionRequest
        => /\ (~GtInt(RequestAmount, 0) \/ GtInt(RequestAmount, MaxAmount)) => Untouched
           /\ (RequestAmount = Num(MaxAmount) /\ RequestFrom # "" /\ RequestTo # "")
                  => /\ elements'.errorDisplay = "none"
                     /\ \/ Appended /\ NoFetch
                        \/ /\ fetchCalls' = fetchCalls + 1
                           /\ appState'.isLoading
                           /\ conversionHistory' = conversionHistory]_vars

\* The request for 1,000,000,001 was turned down after an earlier conversion.
C3_Witness ==
    /\ elements.fromAmount = "1000000001"
    /\ elements.errorDisplay = "block"
    /\ elements.errorMessage = MsgTooLarge
    /\ Len(conversionHistory) = 1
    /\ fetchCalls = 1

(***************************************************************************)
(* C4: a conversion request with amount 0, with a negative amount or with  *)
(* an amount above 1,000,000,000 fails with a validation error whose       *)
(* human-readable reason is shown to the user; a request with amount       *)
(* exactly 1,000,000,000 does not.                                         *)
(***************************************************************************)
C4_InvalidAmountShowsReason ==
    [][(ConversionRequest /\ RequestFrom # "" /\ RequestTo # "")
        => /\ (~IsNaN(RequestAmount) /\ LeqInt(RequestAmount, 0))
                  => /\ elements'.errorDisplay = "block"
                     /\ elements'.errorMessage = MsgPositive
           /\ GtInt(RequestAmount, MaxAmount)
                  => /\ elements'.errorDisplay = "block"
                     /\ elements'.errorMessage = MsgTooLarge
           /\ RequestAmount = Num(MaxAmount) => elements'.errorDisplay = "none"]_vars

(***************************************************************************)
(* C5: a conversion request whose source or target currency is empty or is *)
(* not in the supported-currency allow-list is turned down before any rate *)
(* lookup: it starts no fetch, enters no loading state and records nothing.*)
(***************************************************************************)
C5_UnsupportedCurrencyNoLookup ==
    [][(ConversionRequest
            /\ (RequestFrom \notin CURRENCY_INFO \/ RequestTo \notin CURRENCY_INFO))
        => /\ Untouched
           /\ appState'.isLoading = appState.isLoading
           /\ elements'.resultDisplay = "none"]_vars

\* With an amount entered, the target currency was deselected after a conversion.
C5_Witness ==
    /\ listening
    /\ elements.fromAmount = "1000000000"
    /\ elements.fromCurrency = "USD"
    /\ elements.toCurrency = ""
    /\ elements.resultDisplay = "none"
    /\ Len(conversionHistory) = 1
    /\ pending = <<>>

(***************************************************************************)
(* C6: in every reachable state, the state right after the startup load of *)
(* the store included, the history holds at most 50 records.               *)
(***************************************************************************)
C6_HistoryAtMost50 == Len(conversionHistory) <= HistoryLimit

(***************************************************************************)
(* C7: n records appended one after another to an empty history leave      *)
(* exactly the min(n, 50) most recently appended ones, newest first: the   *)
(* i-th record of the history is the i-th newest conversion.  (In          *)
(* SpecAppend the history is empty after startup, every conversion is of   *)
(* 1 USD to IDR, and the k-th of them is stamped with instant k + 1.)      *)
(***************************************************************************)
C7_AppendKeepsNewest50 ==
    LET n == now - 2
        Conversion(instant) ==
            [from |-> Side(Num(1), "USD"), to |-> Side(Num(2), "IDR"), rate |-> Num(2),
             timestamp |-> DateOf(instant)]
    IN  listening =>
            /\ Len(conversionHistory) = IF n < HistoryLimit THEN n ELSE HistoryLimit
            /\ \A i \in 1..Len(conversionHistory) :
                   conversionHistory[i] = Conversion(now - i)

\* 60 conversions were appended: the oldest 10 are gone.
C7_Witness ==
    /\ now - 2 = HistoryLimit + 10
    /\ Len(conversionHistory) = HistoryLimit
    /\ conversionHistory[HistoryLimit].timestamp = DateOf(12)

(***************************************************************************)
(* C8: for every history the program reaches, saving it to the store and   *)
(* loading the store gives back an equal sequence of records, in the same  *)
(* order, with amounts, currencies, rate and timestamp equal.              *)
(***************************************************************************)
C8_SaveLoadRoundTrip ==
    LoadHistoryFromStorage(SaveHistoryToStorage(St)).conversionHistory = conversionHistory

\* A full history of this session's conversions has been saved.
C8_Witness ==
    /\ Len(conversionHistory) = HistoryLimit
    /\ conversionHistory[HistoryLimit].timestamp.ms > 0
    /\ conversionHistoryData = Stringify(conversionHistory)

(***************************************************************************)
(* C9: loading a store that is absent or malformed (unparseable, or        *)
(* parseable but no sequence of records) raises nothing to initializeApp:  *)
(* startup completes without an error shown, and the history is empty.     *)
(***************************************************************************)
\* The task in which initializeApp loads the history and starts listening.
StartupLoad == ~listening /\ listening'

IsRecord(item) == item.from.present /\ item.to.present /\ item.timestamp.t # "undefined"

AbsentOrMalformed(blob) ==
    \/ blob.kind # "array"
    \/ \E i \in 1..Len(blob.items) : ~IsRecord(blob.items[i])

C9_MalformedStoreLoadsEmpty ==
    [][(StartupLoad /\ AbsentOrMalformed(conversionHistoryData))
        => /\ conversionHistory' = <<>>
           /\ ~appState'.isLoading
           /\ elements'.errorDisplay = "none"
           /\ autoRefresh']_vars

\* Startup is over with a store that holds an array of numbers.
C9_Witness ==
    /\ listening
    /\ autoRefresh
    /\ conversionHistoryData = BlobScalars
    /\ conversionHistory = <<>>

(***************************************************************************)
(* C10: when the store is loaded, a record whose timestamp fails to parse  *)
(* is dropped from the resulting history and all other records of the      *)
(* blob are kept; the load is not aborted.                                 *)
(***************************************************************************)
C10_BadTimestampRecordDropped ==
    [][(StartupLoad /\ conversionHistoryData.kind = "array"
            /\ \A i \in 1..Len(conversionHistoryData.items) :
                   IsRecord(conversionHistoryData.items[i]))
        => LET items == conversionHistoryData.items
               revived == [i \in 1..Len(items) |-> ReviveItem(items[i])]
               Parsed(conversion) == conversion.timestamp.valid
           IN  conversionHistory' = SelectSeq(revived, Parsed)]_vars

(***************************************************************************)
(* C11: after every append and every confirmed clear the store holds       *)
(* exactly the serialization of the in-memory history, and so it does in   *)
(* every later state: a task other than the startup load that changes the  *)
(* history leaves the store equal to JSON.stringify of the new history,    *)
(* and a task that starts with the two in step leaves them in step.        *)
(***************************************************************************)
C11_StoreFollowsHistory ==
    [][~StartupLoad
        => /\ conversionHistory' # conversionHistory
                  => conversionHistoryData' = Stringify(conversionHistory')
           /\ conversionHistoryData = Stringify(conversionHistory)
                  => conversionHistoryData' = Stringify(conversionHistory')]_vars

\* After two conversions the history was cleared: the store holds "[]".
C11_Witness ==
    /\ listening
    /\ now = 4
    /\ conversionHistory = <<>>
    /\ conversionHistoryData = Blob("array", <<>>)

(***************************************************************************)
(* Fetches and their timers                                                *)
(***************************************************************************)
\* The timer and the request of pending[i] are gone after the step.
Released(i) ==
    /\ \A timer \in timers' : timer.id # pending[i].id
    /\ pending[i].id \notin requests'

\* The entry the step has added to the error log.
Logged == appState'.errors[Len(appState'.errors)]

\* The event loop idles for a minute.
Idle == TimePasses(Minute)

(***************************************************************************)
(* C12: when the timeout of a fetch elapses before the transport has       *)
(* responded, the fetch is aborted and rejects with the timeout error, at  *)
(* or after the bound, and neither its request nor its timer stays         *)
(* pending; when the transport responds or fails first, the timer is       *)
(* cleared; so the only armed timers are those of fetches still awaited.   *)
(***************************************************************************)
C12_TimeoutAbortsFetch ==
    [][/\ \A i \in DOMAIN pending :
              FetchSettles(i, "timeout")
                  => /\ Released(i)
                     /\ now' > pending[i].deadline
                     /\ Len(appState'.errors) = Len(appState.errors) + 1
                     /\ Logged.message = MsgTimeout
                     /\ \A j \in DOMAIN pending' : pending'[j].id # pending[i].id
       /\ \A i \in DOMAIN pending :
              (\E outcome \in FetchOutcomes \ {"timeout"} : FetchSettles(i, outcome))
                  => Released(i)
       /\ \A timer \in timers' :
              \E j \in DOMAIN pending' :
                  /\ pending'[j].stage = "fetch"
                  /\ timer = Timer(pending'[j].id, pending'[j].deadline)]_vars

\* A reload timed out; the next fetch got its response in time.
C12_Witness ==
    /\ Len(appState.errors) = 1
    /\ appState.errors[1].message = MsgTimeout
    /\ appState.errors[1].timestamp.ms >= Timeout
    /\ Len(pending) = 1
    /\ pending[1].stage = "json"
    /\ timers = {}
    /\ requests = {}

(***************************************************************************)
(* C13: every rate fetch ends within its bound: the event loop never idles *)
(* past the instant Timeout after the start of a fetch while the function  *)
(* that issued it is still pending, be it awaiting the response or reading *)
(* the response body.                                                      *)
(***************************************************************************)
C13_FetchBoundedUntilTable ==
    [][Idle => \A i \in DOMAIN pending' : now' <= pending'[i].deadline]_vars

(***************************************************************************)
(* C14: the API-call counter counts every network fetch, successful or     *)
(* not: whenever no fetch is outstanding, it equals the number of fetches  *)
(* issued so far by conversions and rate reloads.                          *)
(***************************************************************************)
C14_CounterCountsEveryFetch ==
    pending = <<>> => appState.apiCallCount = fetchCalls

(***************************************************************************)
(* C15: when the fetch for an uncached pair succeeds and the response      *)
(* lacks the target currency, the unsupported-currency error reaches the   *)
(* user as it is: the message shown is the error's own, which names the    *)
(* currency, not a generic conversion-failed message.                      *)
(***************************************************************************)
\* pending[i] is getExchangeRate reading a body in which task.to has no rate.
LacksTarget(i, body) ==
    /\ pending[i].fn = "getExchangeRate"
    /\ BodyResolves(i, body)
    /\ body.rates = "table"
    /\ ~Has(body.table, pending[i].to)

C15_UnsupportedCurrencyVerbatim ==
    [][\A i \in DOMAIN pending, body \in Bodies :
           LacksTarget(i, body)
               => /\ elements'.errorDisplay = "block"
                  /\ elements'.errorMessage = NotAvailable(pending[i].to)]_vars

(***************************************************************************)
(* C16: every failure of a fetch by timeout, in the transport or by a      *)
(* malformed response adds exactly one entry to appState.errors, with the  *)
(* failure's message, the instant and the function that fetched; what the  *)
(* caller shows is one generic message, never the logged diagnostic; and   *)
(* no step shortens the log.                                               *)
(***************************************************************************)
\* The generic message shown for a failure of the task, by its caller.
Generic(task) ==
    CASE task.caller = "initializeApp" -> MsgInit
      [] task.caller = "refreshExchangeRates" -> MsgRefresh
      [] OTHER -> MsgRate

\* The step logs `message` at `instant` for pending[i] and shows the generic
\* one (the interval's callback shows nothing).
FailureLogged(i, message, instant) ==
    /\ appState'.errors =
           Append(appState.errors,
                  [message |-> message, timestamp |-> DateOf(instant),
                   function |-> pending[i].fn])
    /\ IF pending[i].caller = "autoRefresh"
       THEN elements' = elements
       ELSE /\ elements'.errorDisplay = "block"
            /\ elements'.errorMessage = Generic(pending[i])
            /\ elements'.errorMessage # message

C16_FailuresLoggedOnce ==
    [][/\ \A i \in DOMAIN pending :
              /\ FetchSettles(i, "timeout")
                     => FailureLogged(i, MsgTimeout, Later(now, pending[i].deadline))
              /\ FetchSettles(i, "network") => FailureLogged(i, MsgNetwork, now)
              /\ FetchSettles(i, "http") => FailureLogged(i, MsgHttp, now)
              /\ BodyRejects(i) => FailureLogged(i, MsgSyntax, now)
              /\ \A body \in Bodies :
                     (BodyResolves(i, body) /\ body.rates # "table")
                         => FailureLogged(i, IF pending[i].fn = "loadCurrencies"
                                             THEN MsgFormat
                                             ELSE NotAvailable(pending[i].to), now)
       /\ Len(appState'.errors) >= Len(appState.errors)
       /\ SubSeq(appState'.errors, 1, Len(appState.errors)) = appState.errors]_vars

\* A reload failed in the transport, then the fetch of a conversion timed out.
C16_Witness ==
    /\ Len(appState.errors) = 2
    /\ appState.errors[1].function = "loadCurrencies"
    /\ appState.errors[1].message = MsgNetwork
    /\ appState.errors[2].function = "getExchangeRate"
    /\ appState.errors[2].message = MsgTimeout
    /\ elements.errorMessage = MsgRate
    /\ elements.errorDisplay = "block"

(***************************************************************************)
(* C17: in every state between event handlers, whatever the interleaving   *)
(* of conversions, reloads and online/offline events, the error message    *)
(* and the result display are not both visible.                            *)
(***************************************************************************)
C17_ErrorAndResultExclusive ==
    ~(elements.errorDisplay = "block" /\ elements.resultDisplay = "block")

(***************************************************************************)
(* C18: a conversion that gets its rate by a fetch of its own leaves the   *)
(* cache, the currency list and the last-refresh instant as they were;     *)
(* they are written only by a reload that has read its response, and a     *)
(* reload always requests USD.                                             *)
(***************************************************************************)
CacheUnchanged ==
    /\ exchangeRates' = exchangeRates
    /\ currencies' = currencies
    /\ appState'.lastUpdateTime = appState.lastUpdateTime

\* The step resumes pending[i].
Resumes(i) ==
    \/ \E outcome \in FetchOutcomes : FetchSettles(i, outcome)
    \/ BodyRejects(i)
    \/ \E body \in Bodies : BodyResolves(i, body)

C18_AdHocFetchLeavesCache ==
    [][/\ \A i \in DOMAIN pending :
              (pending[i].fn = "getExchangeRate" /\ Resumes(i)) => CacheUnchanged
       /\ ~CacheUnchanged
              => \E i \in DOMAIN pending, body \in Bodies :
                     /\ pending[i].fn = "loadCurrencies"
                     /\ pending[i].from = "USD"
                     /\ BodyResolves(i, body)]_vars

\* USD -> IDR was converted at a fetched rate while the cache holds no IDR.
C18_Witness ==
    /\ Len(conversionHistory) > 0
    /\ conversionHistory[1].from.currency = "USD"
    /\ conversionHistory[1].to.currency = "IDR"
    /\ conversionHistory[1].rate = Num(2)
    /\ "IDR" \notin DOMAIN exchangeRates
    /\ appState.apiCallCount = 3
    /\ pending = <<>>

(***************************************************************************)
(* C19: the cache is replaced all or nothing.  It is the initial empty     *)
(* table or exactly the rate table of one successful reload; a step that   *)
(* changes the cache, the currency list or the last-refresh instant is a   *)
(* reload reading a rate table, which becomes the cache; and a reload that *)
(* fails (timeout, transport error, non-2xx status, unreadable body, rates *)
(* field missing or no mapping) leaves all three as they were.             *)
(***************************************************************************)
\* The step is the reload pending[i] failing.
ReloadFails(i) ==
    /\ pending[i].fn = "loadCurrencies"
    /\ \/ \E outcome \in FetchOutcomes \ {"ok"} : FetchSettles(i, outcome)
       \/ BodyRejects(i)
       \/ \E body \in SessionBodies : body.rates # "table" /\ BodyResolves(i, body)

C19_CacheReplacedAtomically ==
    [][/\ exchangeRates' \in {EmptyTable} \cup Tables
       /\ \A i \in DOMAIN pending : ReloadFails(i) => CacheUnchanged
       /\ ~CacheUnchanged
              => \E i \in DOMAIN pending, body \in SessionBodies :
                     /\ pending[i].fn = "loadCurrencies"
                     /\ body.rates = "table"
                     /\ BodyResolves(i, body)
                     /\ exchangeRates' = body.table]_vars

(***************************************************************************)
(* C20: when the page becomes visible again or the connection comes back,  *)
(* a full reload is started if and only if the cache is older than five    *)
(* minutes, the same threshold for both events; and the interval reloads   *)
(* every five minutes (while the page is visible and online).              *)
(***************************************************************************)
\* The cache was loaded more than five minutes before this step.
Stale == appState.lastUpdateTime.valid /\ now - appState.lastUpdateTime.ms > FiveMinutes

\* The step starts one reload of USD and no other fetch.
Reloads(caller) ==
    /\ fetchCalls' = fetchCalls + 1
    /\ Len(pending') = Len(pending) + 1
    /\ pending'[Len(pending')].fn = "loadCurrencies"
    /\ pending'[Len(pending')].caller = caller
    /\ pending'[Len(pending')].from = "USD"

C20_ReloadWhenOlderThanFiveMinutes ==
    [][/\ (listening /\ VisibilityChange /\ ~hidden')
              => IF Stale THEN Reloads("refreshExchangeRates") ELSE NoFetch
       /\ (listening /\ Online)
              => IF Stale THEN Reloads("refreshExchangeRates") ELSE NoFetch
       /\ (AutoRefreshTimer /\ ~hidden /\ online)
              => /\ Reloads("autoRefresh")
                 /\ now' >= refreshDue
                 /\ refreshDue' = refreshDue + FiveMinutes]_vars

(***************************************************************************)
(* C21: a failed rate request is retried automatically, up to              *)
(* retryAttempts times, before its failure is surfaced: every failure in   *)
(* the error log stands for retryAttempts calls of fetch.                  *)
(***************************************************************************)
RetryAttempts == 3

C21_FailedRequestRetried == fetchCalls >= RetryAttempts * Len(appState.errors)

(***************************************************************************)
(* Swapping.  The cache holds the table {USD: 1, IDR: 15000}; the user     *)
(* types 1 or 15000, selects the placeholder of a currency select, and     *)
(* swaps by the button and by Ctrl/Cmd+S, while fewer than MaxSwaps        *)
(* conversions were made and MaxSwaps throttle intervals have not passed.  *)
(***************************************************************************)
TableExample == [c \in {"USD", "IDR"} |-> IF c = "IDR" THEN 15000 ELSE 1]

SwapTexts == {"1", "15000"}

WithinSwaps == Len(conversionHistory) < MaxSwaps /\ now < MaxSwaps * ThrottleLimit

NextSwap ==
    \/ DOMContentLoaded
    \/ \E i \in DOMAIN pending : FetchSettles(i, "ok")
    \/ \E i \in DOMAIN pending : BodyResolves(i, Body("table", TableExample))
    \/ WithinSwaps /\ \E text \in SwapTexts : AmountInput(text)
    \/ WithinSwaps /\ DebounceFires
    \/ WithinSwaps /\ FromCurrencyChange("")
    \/ WithinSwaps /\ ToCurrencyChange("")
    \/ WithinSwaps /\ SwapClick
    \/ ThrottleExpires
    \/ WithinSwaps /\ KeySwap

SpecSwap == Init /\ [][NextSwap]_vars

\* A task in which swapCurrencies runs: Ctrl/Cmd+S, or a click on the swap
\* button that throttledSwap lets through.
SwapRuns == KeySwap \/ (SwapClick /\ ~inThrottle)

BothSelected == elements.fromCurrency # "" /\ elements.toCurrency # ""

\* The rate getExchangeRate gives from the cache.
CachedRate(from, to) == GetExchangeRate(exchangeRates, from, to).rate
Cached(from, to) == GetExchangeRate(exchangeRates, from, to).cached

(***************************************************************************)
(* C22: swap is an inversion.  With both currencies selected a swap        *)
(* exchanges the two selections, and a second swap restores the pair; with *)
(* a selection empty it changes nothing.  On the cached table the rate for *)
(* (Y, X) is the inverse of the rate for (X, Y), so a conversion of the    *)
(* previous conversion's result back to its source currency, on the same   *)
(* table, gives the previous source amount; with {USD: 1, IDR: 15000},     *)
(* 1 USD gives 15000 IDR and 15000 IDR gives 1 USD.  Amounts and rates are *)
(* exact fractions here.                                                   *)
(***************************************************************************)
C22_SwapIsInversion ==
    [][/\ (SwapRuns /\ BothSelected)
            => /\ elements'.fromCurrency = elements.toCurrency
               /\ elements'.toCurrency = elements.fromCurrency
               /\ LET twice == SwapCurrencies(SwapCurrencies(St))
                  IN  /\ twice.elements.fromCurrency = elements.fromCurrency
                      /\ twice.elements.toCurrency = elements.toCurrency
       /\ (SwapRuns /\ ~BothSelected)
            => /\ elements' = elements
               /\ Untouched
               /\ appState' = appState
       /\ \A X \in options, Y \in options :
            (Cached(X, Y) /\ Cached(Y, X))
                => Mul(CachedRate(X, Y), CachedRate(Y, X)) = Num(1)
       /\ \A X \in options, Y \in options :
            LET back == conversionHistory'[1]
                forth == conversionHistory[1]
            IN  (/\ Len(conversionHistory) > 0
                 /\ Len(conversionHistory') = Len(conversionHistory) + 1
                 /\ exchangeRates' = exchangeRates
                 /\ Cached(X, Y) /\ Cached(Y, X)
                 /\ forth.from.currency = X /\ forth.to.currency = Y
                 /\ forth.rate = CachedRate(X, Y)
                 /\ back.from = forth.to
                 /\ back.to.currency = X)
                    => /\ back.rate = CachedRate(Y, X)
                       /\ back.to.amount = forth.from.amount
       /\ (exchangeRates = TableExample /\ exchangeRates' = exchangeRates
             /\ Len(conversionHistory') = Len(conversionHistory) + 1)
            => LET made == conversionHistory'[1]
               IN  /\ (made.from = Side(Num(1), "USD") /\ made.to.currency = "IDR")
                          => made.to.amount = Num(15000)
                   /\ (made.from = Side(Num(15000), "IDR") /\ made.to.currency = "USD")
                          => made.to.amount = Num(1)]_vars

\* 1 USD was converted to 15000 IDR, the amount 15000 was entered and the
\* pair was swapped: the conversion back gave 1 USD.
C22_Witness ==
    /\ Len(conversionHistory) = 2
    /\ conversionHistory[2].from = Side(Num(1), "USD")
    /\ conversionHistory[2].to = Side(Num(15000), "IDR")
    /\ conversionHistory[1].from = Side(Num(15000), "IDR")
    /\ conversionHistory[1].to = Side(Num(1), "USD")
    /\ elements.fromCurrency = "IDR"
    /\ elements.toCurrency = "USD"
    /\ inThrottle

(***************************************************************************)
(* C24: the swap runs at most once within any 500 ms, whatever triggers    *)
(* it: while the interval opened by a swap that ran is open, a click on    *)
(* the swap button and Ctrl/Cmd+S are both dropped, so neither changes a   *)
(* selection, converts or records anything.                                *)
(***************************************************************************)
IntervalOpen == inThrottle /\ now < throttleDue

C24_SwapAtMostOncePerInterval ==
    [][((SwapClick \/ KeySwap) /\ IntervalOpen)
        => /\ elements' = elements
           /\ conversionHistory' = conversionHistory
           /\ Untouched]_vars

(***************************************************************************)
(* Overlapping conversions.  A reload replaces the cache by a table that   *)
(* lacks a selected currency, so conversions fetch; the user types -5, 1   *)
(* or 15000, reloads and clears the history, the debounced conversion      *)
(* starts while fetches are outstanding, and the responses resolve in any  *)
(* order.                                                                  *)
(***************************************************************************)
OverlapBodies == {Body("table", TableFull), Body("table", TableNoIdr)}

OverlapTexts == {"-5", "1", "15000"}

WithinOverlap == fetchCalls < MaxOverlap /\ now < MaxOverlap

NextOverlap ==
    \/ DOMContentLoaded
    \/ \E i \in DOMAIN pending : FetchSettles(i, "ok")
    \/ \E i \in DOMAIN pending :
           pending[i].fn = "getExchangeRate" /\ FetchSettles(i, "network")
    \/ \E i \in DOMAIN pending, body \in OverlapBodies : BodyResolves(i, body)
    \/ WithinOverlap /\ \E text \in OverlapTexts : AmountInput(text)
    \/ WithinOverlap /\ DebounceFires
    \/ WithinOverlap /\ pending = <<>> /\ KeyRefresh
    \/ \E confirmed \in BOOLEAN : ClearHistoryClick(confirmed)

SpecOverlap == Init /\ [][NextOverlap]_vars

\* pending[i] is a conversion awaiting its rate.
Converting(i) == pending[i].fn = "getExchangeRate"

\* The step leaves every suspended function but pending[i] as it was, with
\* its request in flight and its timer armed.
OthersGoOn(i) ==
    \A j \in DOMAIN pending \ {i} :
        /\ \E k \in DOMAIN pending' : pending'[k] = pending[j]
        /\ pending[j].stage = "fetch"
               => /\ pending[j].id \in requests'
                  /\ Timer(pending[j].id, pending[j].deadline) \in timers'

\* The result area shows `amount` of `currency`.
Displays(amount, currency) ==
    /\ elements'.resultAmount = FormatCurrency(amount, currency)
    /\ elements'.toAmount = Shown("text", FormatNumber(amount, 4), "")
    /\ elements'.resultDisplay = "block"

(***************************************************************************)
(* C23: overlapping conversions do not cancel each other.  When a fetch    *)
(* settles or a body is read, every other suspended function stays         *)
(* suspended with its request and timer.  A conversion whose response      *)
(* resolves with its rate, whichever position it was requested in, puts    *)
(* its own result on display and appends its own record at the head of the *)
(* history at that instant, so the display is that of the conversion that  *)
(* resolved last and the records are in resolution order; one that fails   *)
(* appends nothing.                                                        *)
(***************************************************************************)
C23_LastResolvedIsDisplayed ==
    [][/\ \A i \in DOMAIN pending :
            ((\E outcome \in FetchOutcomes : FetchSettles(i, outcome)) \/ BodyRejects(i))
                => /\ OthersGoOn(i)
                   /\ Converting(i) => conversionHistory' = conversionHistory
       /\ \A i \in DOMAIN pending, body \in Bodies :
            (BodyResolves(i, body) /\ Converting(i))
                => /\ OthersGoOn(i)
                   /\ Len(pending') = Len(pending) - 1
                   /\ IF body.rates = "table" /\ Has(body.table, pending[i].to)
                      THEN LET task == pending[i]
                               rate == Num(body.table[task.to])
                               result == Mul(task.amount, rate)
                           IN  /\ Appended
                               /\ conversionHistory'[1].from = Side(task.amount, task.from)
                               /\ conversionHistory'[1].to = Side(result, task.to)
                               /\ conversionHistory'[1].rate = rate
                               /\ Len(conversionHistory') = Len(conversionHistory) + 1
                               /\ Displays(result, task.to)
                      ELSE conversionHistory' = conversionHistory]_vars

\* Two conversions overlapped and the one requested second has resolved
\* first: its record is the newest and its result is on display while the
\* conversion requested first still awaits its response.
C23_Witness ==
    /\ Len(pending) = 1
    /\ pending[1].fn = "getExchangeRate"
    /\ pending[1].id < fetchCalls
    /\ appState.apiCallCount = fetchCalls - 1
    /\ Len(conversionHistory) = 1
    /\ conversionHistory[1].from.amount # pending[1].amount
    /\ elements.resultAmount =
           FormatCurrency(conversionHistory[1].to.amount, conversionHistory[1].to.currency)

\* The verdict of the validation on what this step's request read.
RequestVerdict == Validate(RequestAmount, RequestFrom, RequestTo)

\* The step leaves the history and its store as they were.
HistoryKept ==
    /\ conversionHistory' = conversionHistory
    /\ conversionHistoryData' = conversionHistoryData

\* The step puts one record before the others, that of a conversion of
\* `amount` at `rate`, stamped within the step.
Recorded(amount, from, to, rate) ==
    /\ Len(conversionHistory') = Len(conversionHistory) + 1
    /\ \A i \in 2..Len(conversionHistory') : conversionHistory'[i] = conversionHistory[i - 1]
    /\ conversionHistory'[1].timestamp.valid
    /\ conversionHistory'[1].timestamp.ms >= now
    /\ conversionHistory'[1].timestamp.ms < now'
    /\ conversionHistory'[1].from = Side(amount, from)
    /\ conversionHistory'[1].to = Side(Mul(amount, rate), to)
    /\ conversionHistory'[1].rate = rate

\* The step is a conversion that got its rate from response i.
RecordedFor(i, body) ==
    /\ Converting(i)
    /\ BodyResolves(i, body)
    /\ body.rates = "table"
    /\ Has(body.table, pending[i].to)
    /\ Recorded(pending[i].amount, pending[i].from, pending[i].to,
                Num(body.table[pending[i].to]))

\* The step is a conversion that got its rate from the cache: it is a call
\* of performConversion, which leaves the inputs it read in elements'.
RecordedFromCache ==
    /\ RequestVerdict = "valid"
    /\ GetExchangeRate(exchangeRates', RequestFrom, RequestTo).cached
    /\ Recorded(RequestAmount, RequestFrom, RequestTo,
                GetExchangeRate(exchangeRates', RequestFrom, RequestTo).rate)

(***************************************************************************)
(* C25: the history changes only through a conversion that obtained a rate *)
(* or through a clear.  Such a conversion appends exactly one record, that *)
(* of its own amount, currencies and rate, with target amount = source     *)
(* amount times rate (the history being below its limit); a conversion     *)
(* that fails validation or fails to obtain a rate leaves the history and  *)
(* the store unchanged.                                                    *)
(***************************************************************************)
C25_HistoryChangesByConversionOrClear ==
    [][/\ (conversionHistory' # conversionHistory)
            => \/ ClearHistoryClick(TRUE) /\ conversionHistory' = <<>>
               \/ RecordedFromCache
               \/ \E i \in DOMAIN pending, body \in Bodies : RecordedFor(i, body)
       /\ (ConversionRequest /\ RequestVerdict = "valid" /\ Cached(RequestFrom, RequestTo))
            => RecordedFromCache
       /\ \A i \in DOMAIN pending, body \in Bodies :
            (Converting(i) /\ BodyResolves(i, body)
                 /\ body.rates = "table" /\ Has(body.table, pending[i].to))
                => RecordedFor(i, body)
       /\ (ConversionRequest /\ RequestVerdict # "valid") => HistoryKept
       /\ \A i \in DOMAIN pending :
            (Converting(i) /\ \E outcome \in FetchOutcomes : FetchSettles(i, outcome))
                => HistoryKept
       /\ \A i \in DOMAIN pending, body \in Bodies :
            (Converting(i) /\ BodyResolves(i, body)
                 /\ ~(body.rates = "table" /\ Has(body.table, pending[i].to)))
                => HistoryKept]_vars

\* A recorded conversion was followed by one that was refused its rate: the
\* failure is logged, and the history and the store still hold the record.
C25_Witness ==
    /\ Len(conversionHistory) = 1
    /\ conversionHistory[1].to.amount =
           Mul(conversionHistory[1].from.amount, conversionHistory[1].rate)
    /\ conversionHistoryData = Stringify(conversionHistory)
    /\ Len(appState.errors) = 1
    /\ appState.errors[1].function = "getExchangeRate"
    /\ appState.errors[1].timestamp.ms > conversionHistory[1].timestamp.ms

(***************************************************************************)
(* C26: the loading flag holds whether a fetch is in flight: between two   *)
(* tasks isLoading is true exactly when a conversion or a reload awaits    *)
(* its response, also when conversions overlap.                            *)
(***************************************************************************)
C26_LoadingIffFetchOutstanding == appState.isLoading <=> pending # <<>>

====
